---------------------------- MODULE Spec2Model ----------------------------
(***************************************************************************)
(* Model of src/setuid_runner.c: the setuid launcher that validates a      *)
(* username and a command, captures the scheduler environment, forks,      *)
(* drops privileges in the child, rebuilds the environment, executes the   *)
(* command and maps the child's wait status to its own exit code.          *)
(*                                                                         *)
(* C strings are sequences of one-character strings.  A pointer that may   *)
(* be NULL is a set with at most one element: {} is NULL, {s} points to s. *)
(* The environment is a function from variable names to values.            *)
(***************************************************************************)
EXTENDS Integers, Sequences, FiniteSets, TLC

(***************************************************************************)
(* Program constants (setuid_runner.c:26-30).                              *)
(***************************************************************************)
MAX_ENV_VARS == 100
MAX_ENV_VAR_LEN == 1024

(***************************************************************************)
(* Bounds of the model.                                                    *)
(***************************************************************************)
\* argc ranges over 1..MaxArgc.
MaxArgc == 4
\* The executed command exits with a code in 0..MaxExitCode (or 7, or 255).
MaxExitCode == 1
\* The executed command is killed by a signal in 1..MaxSignal (or 9, or 64).
MaxSignal == 1
\* Values of the original environment are up to MAX_ENV_VAR_LEN - 1 +
\* MaxOverLen characters long.
MaxOverLen == 2

NULL == {}
Ptr(s) == {s}
Deref(p) == CHOOSE s \in p : TRUE

Min(a, b) == IF a < b THEN a ELSE b

(***************************************************************************)
(* String literals.                                                        *)
(***************************************************************************)
S_bjobs == <<"b","j","o","b","s">>
S_bsub == <<"b","s","u","b">>
S_bkill == <<"b","k","i","l","l">>
S_bqueues == <<"b","q","u","e","u","e","s">>
S_bhosts == <<"b","h","o","s","t","s">>
S_lsload == <<"l","s","l","o","a","d">>
S_lshosts == <<"l","s","h","o","s","t","s">>
S_busers == <<"b","u","s","e","r","s">>
S_empty == <<>>
S_alice == <<"a","l","i","c","e">>
S_root == <<"r","o","o","t">>
S_ghost == <<"g","h","o","s","t">>
S_home_alice == <<"/","h","o","m","e","/","a","l","i","c","e">>
S_home_root == <<"/","r","o","o","t">>
S_bash == <<"/","b","i","n","/","b","a","s","h">>
S_sh == <<"/","b","i","n","/","s","h">>
S_prog == <<"s","e","t","u","i","d","_","r","u","n","n","e","r">>
S_arg == <<"-","u">>

\* setuid_runner.c:33-36
allowed_commands ==
    << S_bjobs, S_bsub, S_bkill, S_bqueues, S_bhosts, S_lsload, S_lshosts,
       S_busers >>
num_allowed_commands == Len(allowed_commands)

\* setuid_runner.c:39-62 (the list has 75 entries, three names twice)
lsf_env_vars == <<
    "LSF_BINDIR", "LSF_LIBDIR", "LSF_SERVERDIR", "LSF_ENVDIR", "LSF_CONFDIR",
    "LSF_INCLUDEDIR", "LSF_MISC", "LSF_TOP", "LSF_VERSION", "LSF_LIM_PORT",
    "LSF_RES_PORT", "LSF_MBD_PORT", "LSF_SBD_PORT", "LSF_AUTH",
    "LSF_USE_HOSTEQUIV", "LSF_ROOT_REX", "LSF_REXD_CONNECT_TIMEOUT",
    "LSF_DEBUG_LIM", "LSF_DEBUG_RES", "LSF_DEBUG_SBD", "LSF_TIME_FORMAT",
    "LSF_TMPDIR", "LSF_LOGDIR", "LSF_LOG_MASK", "LSF_DISABLE_LSRUN",
    "LSF_RSH", "LSF_RCP", "LSF_GETPWNAM_RETRY", "LSF_GETPWNAM_TIMEOUT",
    "LSF_UNIT_FOR_LIMITS", "LSF_HPC_EXTENSIONS", "LSF_STRIP_DOMAIN",
    "LSF_MASTER_LIST", "LSF_SERVER_HOSTS", "LSB_CONFDIR", "LSB_SHAREDIR",
    "LSB_DEFAULTPROJECT", "LSB_DEFAULTQUEUE", "LSB_HOSTS", "LSB_MCPU_HOSTS",
    "LSB_SHAREDIR", "LSB_SUBK_SHOW_EXEC_HOST", "LSB_NTASKS",
    "LSB_NTASKS_PARALLEL", "LSB_QUEUE", "LSB_BATCH", "LSB_JOBID",
    "LSB_JOBINDEX", "LSB_HOSTS", "LSB_MCPU_HOSTS", "LSB_DJOB_HOSTFILE",
    "LSB_DJOB_RANKFILE", "LSB_DJOB_NUMPROC", "LSB_EFFECTIVE_RSRCREQ",
    "LSB_SUB_HOST", "LSB_EXEC_CLUSTER", "LSB_SUB_CLUSTER", "LSB_INTERACTIVE",
    "LSB_JOBFILENAME", "LSB_OUTPUTFILE", "LSB_ERRORFILE", "LSB_INPUTFILE",
    "LSB_CHKFILENAME", "LSB_RESTART", "LSB_RESTART_CMD", "LSB_CHKPNT_METHOD",
    "LSB_CHKPNT_DIR", "LSB_CHKPNT_PERIOD", "LSB_JOBPGIDS", "LSB_JOBPIDS",
    "LSB_BIND_JOB", "LSB_BIND_CPU_LIST", "LSB_BIND_MEM_LIST",
    "LSB_AFFINITY_HOSTFILE", "LSB_PJL_TASK_GEOMETRY" >>
num_lsf_env_vars == Len(lsf_env_vars)

\* setuid_runner.c:152
DEFAULT_PATH ==
    <<"/","u","s","r","/","l","o","c","a","l","/","l","s","f","/","b","i",
      "n",":","/","u","s","r","/","b","i","n",":","/","b","i","n",":","/",
      "u","s","r","/","l","o","c","a","l","/","b","i","n">>

(***************************************************************************)
(* libc string and environment primitives, as the program uses them.       *)
(***************************************************************************)
\* strrchr(s, '/'): the index of the last '/', 0 when there is none.
RECURSIVE strrchr_slash(_, _)
strrchr_slash(s, i) ==
    IF i = 0 THEN 0
    ELSE IF s[i] = "/" THEN i
    ELSE strrchr_slash(s, i - 1)

\* Variant: strcpy, the whole source copied.
strncpy_unbounded(src) == src

\* strncpy(dst, src, MAX_ENV_VAR_LEN - 1); dst[MAX_ENV_VAR_LEN - 1] = '\0':
\* the C string left in dst.
strncpy_bounded(src) == SubSeq(src, 1, Min(Len(src), MAX_ENV_VAR_LEN - 1))

\* getenv(name) on environment env.
getenv(env, name) == IF name \in DOMAIN env THEN Ptr(env[name]) ELSE NULL

\* setenv(name, value, 1) on environment env, when it succeeds.
setenv(env, name, value) ==
    [n \in (DOMAIN env) \cup {name} |-> IF n = name THEN value ELSE env[n]]

\* clearenv(), when it succeeds.
clearenv == [n \in {} |-> <<>>]

(***************************************************************************)
(* Policy gate.                                                            *)
(***************************************************************************)
\* Variant: only the NULL check, the length check left out.
is_valid_username_nonnull(username) == username # NULL

\* setuid_runner.c:71-73
is_valid_username(username) ==
    username # NULL /\ Len(Deref(username)) > 0

\* Variant: the whole command string is compared, no base name taken.
cmd_name_of_whole(command) == command

\* setuid_runner.c:80-85: the text after the last '/'.
cmd_name_of(command) ==
    SubSeq(command, strrchr_slash(command, Len(command)) + 1, Len(command))

\* Variant: strncmp over the allow-listed name's length instead of strcmp.
is_allowed_command_prefix(command) ==
    IF command = NULL THEN FALSE
    ELSE \E i \in 1..num_allowed_commands :
            LET name == cmd_name_of(Deref(command))
                n == Len(allowed_commands[i])
            IN  Len(name) >= n /\ SubSeq(name, 1, n) = allowed_commands[i]

\* setuid_runner.c:76-93
is_allowed_command(command) ==
    IF command = NULL THEN FALSE
    ELSE \E i \in 1..num_allowed_commands :
            cmd_name_of(Deref(command)) = allowed_commands[i]

(***************************************************************************)
(* Environment curator.                                                    *)
(***************************************************************************)
\* setuid_runner.c:100-109: the loop from index i with the entries kept so
\* far.
RECURSIVE preserve_loop(_, _, _)
preserve_loop(env, i, kept) ==
    IF ~(i <= num_lsf_env_vars /\ Len(kept) < MAX_ENV_VARS) THEN kept
    ELSE LET value == getenv(env, lsf_env_vars[i])
         IN  IF value # NULL
             THEN preserve_loop(env, i + 1,
                      Append(kept, [name |-> lsf_env_vars[i],
                                    value |-> strncpy_bounded(Deref(value))]))
             ELSE preserve_loop(env, i + 1, kept)

\* setuid_runner.c:96-122: the preserved_vars array (num_preserved is its
\* length).
preserve_lsf_environment(env) ==
    LET kept == preserve_loop(env, 1, <<>>)
        path_value == getenv(env, "PATH")
    IN  IF path_value # NULL /\ Len(kept) < MAX_ENV_VARS
        THEN Append(kept, [name |-> "PATH",
                           value |-> strncpy_bounded(Deref(path_value))])
        ELSE kept

(***************************************************************************)
(* The system identity directory and the kernel's credential rules, as the *)
(* calls of main meet them.                                                *)
(***************************************************************************)
\* The records getpwnam can return (struct passwd), setuid_runner.c:196.
PasswdDb ==
    { [pw_name |-> S_alice, pw_uid |-> 1001, pw_gid |-> 101,
       pw_dir |-> S_home_alice, pw_shell |-> S_bash],
      [pw_name |-> S_root, pw_uid |-> 0, pw_gid |-> 0,
       pw_dir |-> S_home_root, pw_shell |-> S_sh] }

\* getpwnam(username): a pointer to the record, or NULL.
getpwnam(username) == { e \in PasswdDb : e.pw_name = username }

\* The groups the group database lists the user in.
GroupsOf(username) == IF username = S_alice THEN {200} ELSE {}

\* initgroups(username, gid), when it succeeds: the whole supplementary
\* group list is replaced.
initgroups(cred, username, gid) ==
    [cred EXCEPT !.groups = GroupsOf(username) \cup {gid}]
\* initgroups needs CAP_SETGID.
initgroups_permitted(cred) == "CAP_SETGID" \in cred.caps

\* setgid(gid), when it succeeds: all three group ids with CAP_SETGID, the
\* effective one otherwise.
setgid(cred, gid) ==
    IF "CAP_SETGID" \in cred.caps
    THEN [cred EXCEPT !.rgid = gid, !.egid = gid, !.sgid = gid]
    ELSE [cred EXCEPT !.egid = gid]
setgid_permitted(cred, gid) ==
    "CAP_SETGID" \in cred.caps \/ gid \in {cred.rgid, cred.sgid}

\* setuid(uid), when it succeeds: all three user ids with CAP_SETUID (and
\* the capabilities are lost when none of them is 0), the effective one
\* otherwise.
setuid(cred, uid) ==
    IF "CAP_SETUID" \in cred.caps
    THEN [cred EXCEPT !.ruid = uid, !.euid = uid, !.suid = uid,
                      !.caps = IF uid = 0 THEN @ ELSE {}]
    ELSE [cred EXCEPT !.euid = uid,
                      !.caps = IF uid = 0 THEN @ ELSE {}]
setuid_permitted(cred, uid) ==
    "CAP_SETUID" \in cred.caps \/ uid \in {cred.ruid, cred.suid}

\* getuid() and geteuid().
getuid(cred) == cred.ruid
geteuid(cred) == cred.euid

(***************************************************************************)
(* Wait statuses (sys/wait.h), as main decodes them at lines 263-271.      *)
(***************************************************************************)
ExitedStatus(code) == (code % 256) * 256
SignaledStatus(sig) == sig
\* The same with the core-dump flag set.
CoreDumpedStatus(sig) == sig + 128
StoppedStatus(sig) == sig * 256 + 127
WIFEXITED(status) == status % 128 = 0
WEXITSTATUS(status) == (status \div 256) % 256
WIFSIGNALED(status) == (status % 128) \in 1..126
WTERMSIG(status) == status % 128

\* Variant: the raw wait status is returned.
status_to_return_raw(status) == status

\* Variant: the signal number is returned without the 128 offset.
status_to_return_nosig(status) ==
    IF WIFEXITED(status) THEN WEXITSTATUS(status)
    ELSE IF WIFSIGNALED(status) THEN WTERMSIG(status)
    ELSE 1

\* setuid_runner.c:263-271: the value main returns for a wait status.
status_to_return(status) ==
    IF WIFEXITED(status) THEN WEXITSTATUS(status)
    ELSE IF WIFSIGNALED(status) THEN 128 + WTERMSIG(status)
    ELSE 1

\* The exit code the caller of the launcher sees for a value returned by
\* main.
ProcessExitCode(ret) == ret % 256

(***************************************************************************)
(* Inputs.                                                                 *)
(***************************************************************************)
Usernames == { S_empty, S_alice, S_root, S_ghost }

Dirs == { <<>>, <<"/","u","s","r","/","b","i","n","/">> }
Bases == { S_bjobs, <<"l","s">>, <<"B","J","O","B","S">>,
           <<"b","j","o","b","s","x">>, <<"b","j","o","b","s","/">> }
Commands == { d \o b : d \in Dirs, b \in Bases }

\* A value of n characters whose characters past the copy limit differ from
\* those before it.
ValueOfLen(n) == [i \in 1..n |-> IF i < MAX_ENV_VAR_LEN THEN "a" ELSE "z"]
ValueLens == { 0, 4, MAX_ENV_VAR_LEN - 1, MAX_ENV_VAR_LEN - 1 + MaxOverLen }

LsfNames == { lsf_env_vars[i] : i \in 1..num_lsf_env_vars }
SmallNames == { "PATH", "LSB_HOSTS", "LD_PRELOAD" }
EnvDomains == (SUBSET SmallNames) \cup { LsfNames \cup {"PATH", "LD_PRELOAD"} }
Environments ==
    { [n \in D |-> ValueOfLen(4)] : D \in EnvDomains }
    \cup { [n \in D |-> ValueOfLen(l)] :
             D \in { {"PATH", "LSB_HOSTS", "HOME", "USER"} },
             l \in ValueLens }

\* The credentials the launcher can start with: run by root or by the
\* service account, installed setuid root or not, with the capabilities
\* the kernel left an effective uid of 0.
StartCreds ==
    { [ruid |-> r, euid |-> e, suid |-> e,
       rgid |-> g, egid |-> g, sgid |-> g, groups |-> {g}, caps |-> c] :
        r \in {0, 1000}, e \in {0, 1000}, g \in {0, 100},
        c \in SUBSET {"CAP_SETUID", "CAP_SETGID"} }

ValidStartCred(cred) ==
    /\ cred.euid \in {0, cred.ruid}
    /\ cred.rgid = (IF cred.ruid = 0 THEN 0 ELSE 100)
    /\ (cred.euid # 0 => cred.caps = {})

ExitCodes == (0..MaxExitCode) \cup {7, 255}
Signals == (1..MaxSignal) \cup {9, 64}

\* argv for an argc: the program name, the username, the command, and the
\* command's own arguments.
ArgVector(argc, username, command) ==
    SubSeq(<<S_prog, username, command>> \o [i \in 1..(MaxArgc - 3) |-> S_arg],
           1, argc)

(***************************************************************************)
(* State.                                                                  *)
(***************************************************************************)
VARIABLES
    argv,            \* the argument vector; argv[k + 1] is C's argv[k]
    environ0,        \* the environment the launcher was started with
    cred0,           \* the credentials the launcher was started with
    pc,              \* the parent's position in main
    ret,             \* the value main returned in the parent, NULL before
    penv,            \* the parent's environment
    pcred,           \* the parent's credentials
    preserved_vars,  \* preserved_vars[1..num_preserved]
    pwd,             \* the result of getpwnam, NULL before and when not found
    cpc,             \* the child's position, "none" before the fork
    ccred,           \* the child's credentials
    cenv,            \* the child's environment
    ci,              \* the child's loop index in setup_user_environment
    ccwd,            \* the child's working directory, NULL while unchanged
    wstatus,         \* the child's wait status, NULL while it runs
    execd,           \* what execvp started, NULL before
    calls,           \* the system and library calls issued so far
    errlog,          \* what was written to standard error so far
    gate_command,    \* is_allowed_command called on its own: its argument
    gate_result      \* ... and what it returned, NULL before the call

vars == << argv, environ0, cred0, pc, ret, penv, pcred, preserved_vars, pwd,
           cpc, ccred, cenv, ci, ccwd, wstatus, execd, calls, errlog,
           gate_command, gate_result >>

parentVars == << pc, ret, penv, pcred, preserved_vars, pwd >>
childVars == << cpc, ccred, cenv, ci, ccwd, wstatus, execd >>
inputVars == << argv, environ0, cred0 >>
gateVars == << gate_command, gate_result >>

argc == Len(argv)
\* const char* username = argv[1]; const char* command = argv[2];
username == argv[2]
command == argv[3]
num_preserved == Len(preserved_vars)

Call(proc, name, arg, ok) ==
    [proc |-> proc, call |-> name, arg |-> arg, ok |-> ok]
Msg(proc, text) == [proc |-> proc, msg |-> text]

Init ==
    /\ \E n \in 1..MaxArgc, u \in Usernames, c \in Commands :
          argv = ArgVector(n, u, c)
    /\ environ0 \in Environments
    /\ cred0 \in { c \in StartCreds : ValidStartCred(c) }
    /\ pc = "check_args"
    /\ ret = NULL
    /\ penv = environ0
    /\ pcred = cred0
    /\ preserved_vars = <<>>
    /\ pwd = NULL
    /\ cpc = "none"
    /\ ccred = cred0
    /\ cenv = environ0
    /\ ci = 0
    /\ ccwd = NULL
    /\ wstatus = NULL
    /\ execd = NULL
    /\ calls = <<>>
    /\ errlog = <<>>
    /\ gate_command = NULL
    /\ gate_result = NULL

(***************************************************************************)
(* The parent: main up to the fork, setuid_runner.c:161-207.               *)
(***************************************************************************)
\* Variant: the return without the message.
ParentFails_silent(text, code) ==
    /\ pc' = "exited"
    /\ ret' = Ptr(code)
    /\ UNCHANGED errlog

\* return <code> from main after writing <text> to standard error.
ParentFails(text, code) ==
    /\ pc' = "exited"
    /\ ret' = Ptr(code)
    /\ errlog' = Append(errlog, Msg("parent", text))

\* setuid_runner.c:168-172
CheckArgs ==
    /\ pc = "check_args"
    /\ IF argc < 3
       THEN ParentFails("usage", 1)
       ELSE pc' = "check_username" /\ UNCHANGED << ret, errlog >>
    /\ UNCHANGED << gateVars, inputVars, penv, pcred, preserved_vars, pwd, childVars,
                    calls >>

\* setuid_runner.c:177-181
CheckUsername ==
    /\ pc = "check_username"
    /\ IF ~is_valid_username(Ptr(username))
       THEN ParentFails("username cannot be empty", 1)
       ELSE pc' = "check_command" /\ UNCHANGED << ret, errlog >>
    /\ UNCHANGED << gateVars, inputVars, penv, pcred, preserved_vars, pwd, childVars,
                    calls >>

\* Variant: the command check is left out.
CheckCommand_skipped ==
    /\ pc = "check_command"
    /\ pc' = "preserve"
    /\ UNCHANGED << ret, errlog >>
    /\ UNCHANGED << gateVars, inputVars, penv, pcred, preserved_vars, pwd, childVars,
                    calls >>

\* setuid_runner.c:183-187
CheckCommand ==
    /\ pc = "check_command"
    /\ IF ~is_allowed_command(Ptr(command))
       THEN ParentFails("command not allowed", 1)
       ELSE pc' = "preserve" /\ UNCHANGED << ret, errlog >>
    /\ UNCHANGED << gateVars, inputVars, penv, pcred, preserved_vars, pwd, childVars,
                    calls >>

\* Variant: the capture empties the environment it has read.
Preserve_clearing ==
    /\ pc = "preserve"
    /\ preserved_vars' = preserve_lsf_environment(penv)
    /\ calls' = Append(calls, Call("parent", "preserve_lsf_environment", "", TRUE))
    /\ pc' = "getpwnam"
    /\ penv' = clearenv
    /\ UNCHANGED << gateVars, inputVars, ret, pcred, pwd, childVars, errlog >>

\* setuid_runner.c:189-193 (preserve_lsf_environment always returns 0)
Preserve ==
    /\ pc = "preserve"
    /\ preserved_vars' = preserve_lsf_environment(penv)
    /\ calls' = Append(calls, Call("parent", "preserve_lsf_environment", "", TRUE))
    /\ pc' = "getpwnam"
    /\ UNCHANGED << gateVars, inputVars, ret, penv, pcred, pwd, childVars, errlog >>

\* Variant: the result of getpwnam is not checked.
Lookup_unchecked ==
    /\ pc = "getpwnam"
    /\ pwd' = getpwnam(username)
    /\ calls' = Append(calls, Call("parent", "getpwnam", "", pwd' # NULL))
    /\ pc' = "fork"
    /\ UNCHANGED << gateVars, inputVars, ret, errlog, penv, pcred, preserved_vars,
                    childVars >>

\* setuid_runner.c:195-200
Lookup ==
    /\ pc = "getpwnam"
    /\ pwd' = getpwnam(username)
    /\ calls' = Append(calls, Call("parent", "getpwnam", "", pwd' # NULL))
    /\ IF pwd' = NULL
       THEN ParentFails("user not found", 1)
       ELSE pc' = "fork" /\ UNCHANGED << ret, errlog >>
    /\ UNCHANGED << gateVars, inputVars, penv, pcred, preserved_vars, childVars >>

\* Variant: the result of fork is not checked, the parent goes on to wait.
Fork_unchecked ==
    /\ pc = "fork"
    /\ \E ok \in BOOLEAN :
          /\ calls' = Append(calls, Call("parent", "fork", "", ok))
          /\ pc' = "waitpid"
          /\ IF ok
             THEN /\ cpc' = "initgroups"
                  /\ ccred' = pcred
                  /\ cenv' = penv
             ELSE UNCHANGED << cpc, ccred, cenv >>
          /\ UNCHANGED << ret, errlog >>
    /\ UNCHANGED << gateVars, inputVars, penv, pcred, preserved_vars, pwd, ci, ccwd,
                    wstatus, execd >>

\* setuid_runner.c:202-207: fork fails, or the child starts as a copy of the
\* parent.
Fork ==
    /\ pc = "fork"
    /\ \E ok \in BOOLEAN :
          /\ calls' = Append(calls, Call("parent", "fork", "", ok))
          /\ IF ok
             THEN /\ pc' = "waitpid"
                  /\ cpc' = "initgroups"
                  /\ ccred' = pcred
                  /\ cenv' = penv
                  /\ UNCHANGED << ret, errlog >>
             ELSE /\ ParentFails("fork failed", 1)
                  /\ UNCHANGED << cpc, ccred, cenv >>
    /\ UNCHANGED << gateVars, inputVars, penv, pcred, preserved_vars, pwd, ci, ccwd,
                    wstatus, execd >>

(***************************************************************************)
(* The child: privilege transition, setuid_runner.c:209-234.               *)
(***************************************************************************)
\* Variant: exit(-1) instead of exit(1).
ChildFails_minus1(text) ==
    /\ cpc' = "terminated"
    /\ wstatus' = Ptr(ExitedStatus(-1))
    /\ errlog' = Append(errlog, Msg("child", text))

\* <text> on standard error, then exit(1).
ChildFails(text) ==
    /\ cpc' = "terminated"
    /\ wstatus' = Ptr(ExitedStatus(1))
    /\ errlog' = Append(errlog, Msg("child", text))

target == Deref(pwd)

\* setuid_runner.c:212-216
ChildInitgroups ==
    /\ cpc = "initgroups"
    /\ \E ok \in BOOLEAN :
          /\ ok => initgroups_permitted(ccred)
          /\ calls' = Append(calls, Call("child", "initgroups", "", ok))
          /\ IF ok
             THEN /\ ccred' = initgroups(ccred, username, target.pw_gid)
                  /\ cpc' = "setgid"
                  /\ UNCHANGED << wstatus, errlog >>
             ELSE /\ ChildFails("initgroups failed")
                  /\ UNCHANGED ccred
    /\ UNCHANGED << gateVars, inputVars, parentVars, cenv, ci, ccwd, execd >>

\* Variant: the result of setgid is not checked.
ChildSetgid_unchecked ==
    /\ cpc = "setgid"
    /\ \E ok \in BOOLEAN :
          /\ ok => setgid_permitted(ccred, Deref(pwd).pw_gid)
          /\ calls' = Append(calls, Call("child", "setgid", "", ok))
          /\ ccred' = IF ok THEN setgid(ccred, Deref(pwd).pw_gid) ELSE ccred
          /\ cpc' = "setuid"
          /\ UNCHANGED << wstatus, errlog >>
    /\ UNCHANGED << gateVars, inputVars, parentVars, cenv, ci, ccwd, execd >>

\* setuid_runner.c:218-222
ChildSetgid ==
    /\ cpc = "setgid"
    /\ \E ok \in BOOLEAN :
          /\ ok => setgid_permitted(ccred, target.pw_gid)
          /\ calls' = Append(calls, Call("child", "setgid", "", ok))
          /\ IF ok
             THEN /\ ccred' = setgid(ccred, target.pw_gid)
                  /\ cpc' = "setuid"
                  /\ UNCHANGED << wstatus, errlog >>
             ELSE /\ ChildFails("setgid failed")
                  /\ UNCHANGED ccred
    /\ UNCHANGED << gateVars, inputVars, parentVars, cenv, ci, ccwd, execd >>

\* setuid_runner.c:224-228
ChildSetuid ==
    /\ cpc = "setuid"
    /\ \E ok \in BOOLEAN :
          /\ ok => setuid_permitted(ccred, target.pw_uid)
          /\ calls' = Append(calls, Call("child", "setuid", "", ok))
          /\ IF ok
             THEN /\ ccred' = setuid(ccred, target.pw_uid)
                  /\ cpc' = "verify"
                  /\ UNCHANGED << wstatus, errlog >>
             ELSE /\ ChildFails("setuid failed")
                  /\ UNCHANGED ccred
    /\ UNCHANGED << gateVars, inputVars, parentVars, cenv, ci, ccwd, execd >>

\* Variant: only the effective uid is compared.
uid_verified_euid_only(cred, pw) == ~(geteuid(cred) # pw.pw_uid)

\* setuid_runner.c:231: the verification passes.
uid_verified(cred, pw) ==
    ~(getuid(cred) # pw.pw_uid \/ geteuid(cred) # pw.pw_uid)

\* setuid_runner.c:230-234
ChildVerify ==
    /\ cpc = "verify"
    /\ calls' = Append(calls, Call("child", "getuid", "", uid_verified(ccred, target)))
    /\ IF uid_verified(ccred, target)
       THEN cpc' = "clearenv" /\ UNCHANGED << wstatus, errlog >>
       ELSE ChildFails("failed to change to user")
    /\ UNCHANGED << gateVars, inputVars, parentVars, ccred, cenv, ci, ccwd, execd >>

(***************************************************************************)
(* The child: setup_user_environment, setuid_runner.c:125-159, called at   *)
(* lines 236-239.                                                          *)
(***************************************************************************)
\* Variant: the environment is not cleared.
ChildClearenv_skipped ==
    /\ cpc = "clearenv"
    /\ calls' = Append(calls, Call("child", "clearenv", "", TRUE))
    /\ cpc' = "setenv_identity"
    /\ ci' = 1
    /\ UNCHANGED << cenv, wstatus, errlog >>
    /\ UNCHANGED << gateVars, inputVars, parentVars, ccred, ccwd, execd >>

\* setuid_runner.c:127-131
ChildClearenv ==
    /\ cpc = "clearenv"
    /\ \E ok \in BOOLEAN :
          /\ calls' = Append(calls, Call("child", "clearenv", "", ok))
          /\ IF ok
             THEN /\ cenv' = clearenv
                  /\ cpc' = "setenv_identity"
                  /\ ci' = 1
                  /\ UNCHANGED << wstatus, errlog >>
             ELSE /\ ChildFails("failed to clear environment")
                  /\ UNCHANGED << cenv, ci >>
    /\ UNCHANGED << gateVars, inputVars, parentVars, ccred, ccwd, execd >>

\* setuid_runner.c:134-137: the variables set from the identity, in order.
identity_vars(user, pw) ==
    << [name |-> "USER", value |-> user],
       [name |-> "LOGNAME", value |-> user],
       [name |-> "HOME", value |-> pw.pw_dir],
       [name |-> "SHELL", value |-> pw.pw_shell] >>

\* setuid_runner.c:133-140: one setenv of the || chain; the first failure
\* ends the chain.
ChildSetenvIdentity ==
    /\ cpc = "setenv_identity"
    /\ LET v == identity_vars(username, target)[ci]
       IN  \E ok \in BOOLEAN :
             /\ calls' = Append(calls, Call("child", "setenv", v.name, ok))
             /\ IF ok
                THEN /\ cenv' = setenv(cenv, v.name, v.value)
                     /\ IF ci < Len(identity_vars(username, target))
                        THEN ci' = ci + 1 /\ cpc' = cpc
                        ELSE ci' = 1 /\ cpc' = "restore"
                     /\ UNCHANGED << wstatus, errlog >>
                ELSE /\ ChildFails("failed to set environment variables")
                     /\ UNCHANGED << cenv, ci >>
    /\ UNCHANGED << gateVars, inputVars, parentVars, ccred, ccwd, execd >>

\* setuid_runner.c:142-148: one turn of the restore loop (ci is i + 1).
ChildRestore ==
    /\ cpc = "restore"
    /\ IF ci <= num_preserved
       THEN \E ok \in BOOLEAN :
              /\ calls' = Append(calls,
                     Call("child", "setenv", preserved_vars[ci].name, ok))
              /\ IF ok
                 THEN /\ cenv' = setenv(cenv, preserved_vars[ci].name,
                                        preserved_vars[ci].value)
                      /\ ci' = ci + 1
                      /\ UNCHANGED << cpc, wstatus, errlog >>
                 ELSE /\ ChildFails("failed to restore environment variable")
                      /\ UNCHANGED << cenv, ci >>
       ELSE /\ cpc' = "default_path"
            /\ UNCHANGED << cenv, ci, wstatus, errlog, calls >>
    /\ UNCHANGED << gateVars, inputVars, parentVars, ccred, ccwd, execd >>

\* Variant: an empty PATH is treated like a missing one.
ChildDefaultPath_nonempty ==
    /\ cpc = "default_path"
    /\ IF getenv(cenv, "PATH") = NULL \/ getenv(cenv, "PATH") = Ptr(S_empty)
       THEN \E ok \in BOOLEAN :
              /\ calls' = Append(calls, Call("child", "setenv", "PATH", ok))
              /\ IF ok
                 THEN /\ cenv' = setenv(cenv, "PATH", DEFAULT_PATH)
                      /\ cpc' = "chdir"
                      /\ UNCHANGED << wstatus, errlog >>
                 ELSE /\ ChildFails("failed to set default PATH")
                      /\ UNCHANGED cenv
       ELSE /\ cpc' = "chdir"
            /\ UNCHANGED << cenv, wstatus, errlog, calls >>
    /\ UNCHANGED << gateVars, inputVars, parentVars, ccred, ci, ccwd, execd >>

\* setuid_runner.c:150-158
ChildDefaultPath ==
    /\ cpc = "default_path"
    /\ IF getenv(cenv, "PATH") = NULL
       THEN \E ok \in BOOLEAN :
              /\ calls' = Append(calls, Call("child", "setenv", "PATH", ok))
              /\ IF ok
                 THEN /\ cenv' = setenv(cenv, "PATH", DEFAULT_PATH)
                      /\ cpc' = "chdir"
                      /\ UNCHANGED << wstatus, errlog >>
                 ELSE /\ ChildFails("failed to set default PATH")
                      /\ UNCHANGED cenv
       ELSE /\ cpc' = "chdir"
            /\ UNCHANGED << cenv, wstatus, errlog, calls >>
    /\ UNCHANGED << gateVars, inputVars, parentVars, ccred, ci, ccwd, execd >>

(***************************************************************************)
(* The child: chdir and execvp, setuid_runner.c:241-254.                   *)
(***************************************************************************)
\* Variant: a failed chdir ends the child like every other failed step.
ChildChdir_fatal ==
    /\ cpc = "chdir"
    /\ \E ok \in BOOLEAN :
          /\ calls' = Append(calls, Call("child", "chdir", "", ok))
          /\ IF ok
             THEN /\ ccwd' = Ptr(Deref(pwd).pw_dir)
                  /\ cpc' = "execvp"
                  /\ UNCHANGED << wstatus, errlog >>
             ELSE /\ cpc' = "terminated"
                  /\ wstatus' = Ptr(ExitedStatus(1))
                  /\ errlog' = Append(errlog,
                          Msg("child", "warning: could not change to home directory"))
                  /\ UNCHANGED ccwd
    /\ UNCHANGED << gateVars, inputVars, parentVars, ccred, cenv, ci, execd >>

\* Variant: the effective uid is switched back to the caller's for the
\* chdir.
ChildChdir_as_caller ==
    /\ cpc = "chdir"
    /\ calls' = Append(calls, Call("child", "chdir", "", TRUE))
    /\ ccred' = [ccred EXCEPT !.euid = cred0.euid]
    /\ ccwd' = Ptr(Deref(pwd).pw_dir)
    /\ cpc' = "execvp"
    /\ UNCHANGED << gateVars, inputVars, parentVars, cenv, ci, wstatus, execd, errlog >>

\* setuid_runner.c:241-245
ChildChdir ==
    /\ cpc = "chdir"
    /\ \E ok \in BOOLEAN :
          /\ calls' = Append(calls, Call("child", "chdir", "", ok))
          /\ IF ok
             THEN ccwd' = Ptr(target.pw_dir) /\ UNCHANGED errlog
             ELSE /\ errlog' = Append(errlog,
                          Msg("child", "warning: could not change to home directory"))
                  /\ UNCHANGED ccwd
    /\ cpc' = "execvp"
    /\ UNCHANGED << gateVars, inputVars, parentVars, ccred, cenv, ci, wstatus, execd >>

\* char** exec_args = &argv[2];
exec_args == SubSeq(argv, 3, Len(argv))

\* setuid_runner.c:247-254
ChildExecvp ==
    /\ cpc = "execvp"
    /\ \E ok \in BOOLEAN :
          /\ calls' = Append(calls, Call("child", "execvp", "", ok))
          /\ IF ok
             THEN /\ execd' = Ptr([file |-> command, args |-> exec_args,
                                   env |-> cenv, cred |-> ccred, cwd |-> ccwd])
                  /\ cpc' = "running"
                  /\ UNCHANGED << wstatus, errlog >>
             ELSE /\ ChildFails("execvp failed")
                  /\ UNCHANGED execd
    /\ UNCHANGED << gateVars, inputVars, parentVars, ccred, cenv, ci, ccwd >>

(***************************************************************************)
(* The executed command: it exits, is killed by a signal, or (when it      *)
(* asked to be traced by its parent) stops.                                *)
(***************************************************************************)
CommandExits ==
    /\ cpc = "running"
    /\ \E code \in ExitCodes : wstatus' = Ptr(ExitedStatus(code))
    /\ cpc' = "terminated"
    /\ UNCHANGED << gateVars, inputVars, parentVars, ccred, cenv, ci, ccwd, execd,
                    calls, errlog >>

CommandKilled ==
    /\ cpc = "running"
    /\ \E sig \in Signals :
          wstatus' \in { Ptr(SignaledStatus(sig)), Ptr(CoreDumpedStatus(sig)) }
    /\ cpc' = "terminated"
    /\ UNCHANGED << gateVars, inputVars, parentVars, ccred, cenv, ci, ccwd, execd,
                    calls, errlog >>

CommandStopped ==
    /\ cpc = "running"
    /\ wstatus' = Ptr(StoppedStatus(19))
    /\ cpc' = "stopped"
    /\ UNCHANGED << gateVars, inputVars, parentVars, ccred, cenv, ci, ccwd, execd,
                    calls, errlog >>

(***************************************************************************)
(* The parent after the fork, setuid_runner.c:255-272.                     *)
(***************************************************************************)
\* Variant: the parent goes on waiting unless the child exited normally.
Wait_exited_only ==
    /\ pc = "waitpid"
    /\ wstatus # NULL
    /\ WIFEXITED(Deref(wstatus))
    /\ \E ok \in BOOLEAN :
          /\ ~ok => cpc = "terminated"
          /\ calls' = Append(calls, Call("parent", "waitpid", "", ok))
          /\ IF ok
             THEN /\ pc' = "exited"
                  /\ ret' = Ptr(status_to_return(Deref(wstatus)))
                  /\ UNCHANGED errlog
             ELSE ParentFails("waitpid failed", 1)
    /\ UNCHANGED << gateVars, inputVars, penv, pcred, preserved_vars, pwd, childVars >>

\* waitpid(pid, &status, 0) returns once the child has a status to report.
\* It fails only for a child that has terminated and cannot be waited for.
Wait ==
    /\ pc = "waitpid"
    /\ wstatus # NULL
    /\ \E ok \in BOOLEAN :
          /\ ~ok => cpc = "terminated"
          /\ calls' = Append(calls, Call("parent", "waitpid", "", ok))
          /\ IF ok
             THEN /\ pc' = "exited"
                  /\ ret' = Ptr(status_to_return(Deref(wstatus)))
                  /\ UNCHANGED errlog
             ELSE ParentFails("waitpid failed", 1)
    /\ UNCHANGED << gateVars, inputVars, penv, pcred, preserved_vars, pwd, childVars >>

Next ==
    \/ CheckArgs
    \/ CheckUsername
    \/ CheckCommand
    \/ Preserve
    \/ Lookup
    \/ Fork
    \/ ChildInitgroups
    \/ ChildSetgid
    \/ ChildSetuid
    \/ ChildVerify
    \/ ChildClearenv
    \/ ChildSetenvIdentity
    \/ ChildRestore
    \/ ChildDefaultPath
    \/ ChildChdir
    \/ ChildExecvp
    \/ CommandExits
    \/ CommandKilled
    \/ CommandStopped
    \/ Wait

Spec == Init /\ [][Next]_vars

\* The steps of the launcher's own code: main in the parent, and main in
\* the child up to execvp.  Both are straight-line code of a scheduled
\* process, and waitpid returns once the child has a status to report; the
\* executed command is under no obligation to end.
ParentStep ==
    \/ CheckArgs
    \/ CheckUsername
    \/ CheckCommand
    \/ Lookup
    \/ Fork
    \/ Wait
\* The step of the parent at line 190.  Preserve is enabled exactly when
\* pc = "preserve", and it is the only step of Next that moves pc from
\* there, so weak fairness of this move is weak fairness of Preserve.
PreserveStep == pc = "preserve" /\ pc' = "getpwnam"
ChildStep ==
    \/ ChildInitgroups
    \/ ChildSetgid
    \/ ChildSetuid
    \/ ChildVerify
    \/ ChildClearenv
    \/ ChildSetenvIdentity
    \/ ChildRestore
    \/ ChildDefaultPath
    \/ ChildChdir
    \/ ChildExecvp
Fairness == WF_vars(ParentStep) /\ WF_pc(PreserveStep) /\ WF_vars(ChildStep)
\* The runs whose environment holds at most the three names of SmallNames:
\* the environment decides how many setenv calls the child makes, and no
\* branch of main.
FairInit == Init /\ DOMAIN environ0 \subseteq SmallNames
FairSpec == FairInit /\ [][Next]_vars /\ Fairness

\* The launcher's exit code, once main has returned.
exit_code == ProcessExitCode(Deref(ret))

(***************************************************************************)
(* Vocabulary of the properties.                                           *)
(***************************************************************************)
Called(name) == \E i \in DOMAIN calls : calls[i].call = name
CalledOk(name) == \E i \in DOMAIN calls : calls[i].call = name /\ calls[i].ok
Exited == pc = "exited"

\* The eight allow-listed names, as a set.
AllowedNames ==
    { S_bjobs, S_bsub, S_bkill, S_bqueues, S_bhosts, S_lsload, S_lshosts,
      S_busers }

\* The final path segment of s: the suffix of s without '/' that starts s or
\* follows a '/'.
FinalSegment(s) ==
    CHOOSE t \in { SubSeq(s, k, Len(s)) : k \in 1..(Len(s) + 1) } :
        /\ \A i \in DOMAIN t : t[i] # "/"
        /\ Len(t) = Len(s) \/ s[Len(s) - Len(t)] = "/"

HasCommandArg == argc >= 3
KnownUser == \E e \in PasswdDb : e.pw_name = username

(***************************************************************************)
(* C1: when the final path segment of the command argument is not one of   *)
(* the allow-listed names, the run never gets past the command check: it   *)
(* can always take its next step until it has exited, it exits with code   *)
(* 1, and none of getpwnam, fork, initgroups, setgid, setuid, clearenv or   *)
(* execvp is ever called.                                                  *)
(***************************************************************************)
C1_DisallowedCommandRejected ==
    (HasCommandArg /\ FinalSegment(command) \notin AllowedNames) =>
        /\ pc \in {"check_args", "check_username", "check_command", "exited"}
        /\ ~Exited => ENABLED Next
        /\ Exited => exit_code = 1
        /\ \A name \in {"getpwnam", "fork", "initgroups", "setgid", "setuid",
                        "clearenv", "execvp"} : ~Called(name)
        /\ cpc = "none"

\* A run with a valid username rejected at the command check for a name
\* that only starts like an allow-listed one.
C1_Witness ==
    /\ HasCommandArg
    /\ Exited
    /\ username = S_alice
    /\ FinalSegment(command) = <<"b","j","o","b","s","x">>
    /\ Len(command) > 6
    /\ exit_code = 1

(***************************************************************************)
(* C2: the child is at clearenv or beyond, or has called execvp, only with *)
(* its real and effective uid equal to the target's; and when setuid has   *)
(* returned success but one of the two differs, the child gets no further  *)
(* than the verification, where it exits with status 1, without calling    *)
(* clearenv or execvp.                                                     *)
(***************************************************************************)
UidsAreTarget(cred) ==
    cred.ruid = target.pw_uid /\ cred.euid = target.pw_uid

C2_VerifiedBeforeRebuildAndExec ==
    /\ (cpc \in {"clearenv", "setenv_identity", "restore", "default_path",
                 "chdir", "execvp", "running", "stopped"}
          \/ Called("clearenv") \/ Called("execvp"))
         => UidsAreTarget(ccred)
    /\ execd # NULL => UidsAreTarget(Deref(execd).cred)
    /\ (CalledOk("setuid") /\ ~UidsAreTarget(ccred)) =>
          /\ cpc \in {"verify", "terminated"}
          /\ cpc = "terminated" => wstatus = Ptr(ExitedStatus(1))
          /\ ~Called("clearenv") /\ ~Called("execvp")
          /\ execd = NULL

\* setuid returned success with the real uid left at the caller's, and the
\* child exited at the verification.
C2_Witness ==
    /\ CalledOk("setuid")
    /\ ccred.euid = target.pw_uid
    /\ ccred.ruid # target.pw_uid
    /\ cpc = "terminated"
    /\ wstatus = Ptr(ExitedStatus(1))

(***************************************************************************)
(* C3: the child's privilege-transition calls are a prefix of initgroups,  *)
(* setgid, setuid, verification, in that order, each issued once and only  *)
(* after the previous one succeeded; and any later step of the child       *)
(* (environment rebuild, chdir, execvp) comes after all four succeeded.    *)
(***************************************************************************)
TransitionOrder == << "initgroups", "setgid", "setuid", "getuid" >>
IsTransitionCall(c) ==
    c.call \in { TransitionOrder[k] : k \in DOMAIN TransitionOrder }
TransitionCalls == SelectSeq(calls, IsTransitionCall)
IsChildCall(c) == c.proc = "child"
ChildCalls == SelectSeq(calls, IsChildCall)
IsLaterCall(c) == c.call \in {"clearenv", "setenv", "chdir", "execvp"}
LaterCalls == SelectSeq(calls, IsLaterCall)

C3_TransitionOrder ==
    /\ Len(TransitionCalls) <= Len(TransitionOrder)
    /\ \A k \in DOMAIN TransitionCalls :
          /\ TransitionCalls[k].call = TransitionOrder[k]
          /\ TransitionCalls[k].proc = "child"
          /\ k < Len(TransitionCalls) => TransitionCalls[k].ok
    /\ Len(LaterCalls) > 0 =>
          /\ Len(TransitionCalls) = Len(TransitionOrder)
          /\ \A k \in DOMAIN TransitionOrder :
                ChildCalls[k].call = TransitionOrder[k] /\ ChildCalls[k].ok
    /\ cpc \in {"clearenv", "setenv_identity", "restore", "default_path",
                "chdir", "execvp", "running", "stopped"}
          => /\ Len(TransitionCalls) = Len(TransitionOrder)
             /\ \A k \in DOMAIN TransitionCalls : TransitionCalls[k].ok

\* The command was executed, so all four steps were taken.
C3_Witness ==
    /\ execd # NULL
    /\ Len(TransitionCalls) = 4

(***************************************************************************)
(* C4: the environment the command is executed with holds exactly USER and *)
(* LOGNAME (the username), HOME and SHELL (from the resolved identity),    *)
(* every allow-listed scheduler variable and PATH of the original          *)
(* environment with its captured value (the first MAX_ENV_VAR_LEN - 1      *)
(* characters of the original), and the default PATH only when the         *)
(* original environment had no PATH; nothing else of the original          *)
(* environment is in it.                                                   *)
(***************************************************************************)
Captured(v) == [i \in 1..Min(Len(v), MAX_ENV_VAR_LEN - 1) |-> v[i]]
PreservedNames == (LsfNames \cup {"PATH"}) \cap DOMAIN environ0

ExpectedEnv ==
    [n \in {"USER", "LOGNAME", "HOME", "SHELL", "PATH"} \cup PreservedNames |->
        IF n \in PreservedNames THEN Captured(environ0[n])
        ELSE IF n \in {"USER", "LOGNAME"} THEN username
        ELSE IF n = "HOME" THEN target.pw_dir
        ELSE IF n = "SHELL" THEN target.pw_shell
        ELSE DEFAULT_PATH]

C4_ExecEnvironmentExact ==
    execd # NULL =>
        /\ Deref(execd).env = ExpectedEnv
        /\ \A n \in DOMAIN environ0 :
              n \notin (LsfNames \cup {"PATH", "USER", "LOGNAME", "HOME", "SHELL"})
                 => n \notin DOMAIN Deref(execd).env

\* The command runs, and the original environment had an allow-listed
\* variable, a variable outside the allow-list and no PATH.
C4_Witness ==
    /\ execd # NULL
    /\ "LSB_HOSTS" \in DOMAIN environ0
    /\ "LD_PRELOAD" \in DOMAIN environ0
    /\ "PATH" \notin DOMAIN environ0
    /\ Deref(execd).env["PATH"] = DEFAULT_PATH

(***************************************************************************)
(* C5: once setuid has succeeded and the child's real and effective uid    *)
(* are the target's, no step of the run changes either of them.            *)
(***************************************************************************)
C5_UidNeverChangesBack ==
    [][ (CalledOk("setuid") /\ UidsAreTarget(ccred)) => UidsAreTarget(ccred') ]_vars

\* The uid was changed from the caller's to the target's, and the child went
\* on to run the command.
C5_Witness ==
    /\ CalledOk("setuid")
    /\ cred0.ruid # target.pw_uid
    /\ cred0.euid # target.pw_uid
    /\ UidsAreTarget(ccred)
    /\ cpc = "terminated"
    /\ execd # NULL

(***************************************************************************)
(* C6: the launcher exits with code 0 only when the command was executed   *)
(* in the child, after a successful privilege transition and environment   *)
(* rebuild, and exited normally with code 0; every other finished run has  *)
(* a non-zero exit code.                                                   *)
(***************************************************************************)
CommandExitedZero ==
    /\ execd # NULL
    /\ cpc = "terminated"
    /\ wstatus = Ptr(ExitedStatus(0))

C6_ZeroOnlyOnSuccess ==
    Exited =>
        /\ exit_code = 0 =>
              /\ CommandExitedZero
              /\ \A name \in {"initgroups", "setgid", "setuid", "getuid",
                              "clearenv", "execvp", "waitpid"} : CalledOk(name)
              /\ \A i \in DOMAIN calls :
                    calls[i].call # "chdir" => calls[i].ok
              /\ errlog \in { <<>>,
                    << Msg("child", "warning: could not change to home directory") >> }
        /\ (\E i \in DOMAIN errlog : errlog[i].msg \in
               {"usage", "username cannot be empty", "command not allowed",
                "user not found", "fork failed", "waitpid failed",
                "initgroups failed", "setgid failed", "setuid failed",
                "failed to change to user", "failed to clear environment",
                "failed to set environment variables",
                "failed to restore environment variable",
                "failed to set default PATH", "execvp failed"})
              => exit_code # 0
        /\ (\E sig \in 1..126 :
               wstatus \in { Ptr(SignaledStatus(sig)), Ptr(CoreDumpedStatus(sig)) })
              => exit_code # 0

\* The launcher exited with code 0.
C6_Witness ==
    /\ Exited
    /\ exit_code = 0
    /\ CommandExitedZero

(***************************************************************************)
(* C7: when a call of the child other than chdir fails, or the uid         *)
(* verification fails, that call is the child's last: the child has        *)
(* terminated with status 1, the command was not executed, and the parent  *)
(* exits with code 1.                                                      *)
(***************************************************************************)
C7_ChildFailureIsFinal ==
    \A i \in DOMAIN calls :
        (calls[i].proc = "child" /\ ~calls[i].ok /\ calls[i].call # "chdir") =>
            /\ \A j \in (i + 1)..Len(calls) : calls[j].proc # "child"
            /\ cpc = "terminated"
            /\ wstatus = Ptr(ExitedStatus(1))
            /\ execd = NULL
            /\ Exited => exit_code = 1

\* Restoring a preserved variable failed after the others were set, and the
\* parent has exited.
C7_Witness ==
    /\ Exited
    /\ num_preserved >= 2
    /\ \E i \in DOMAIN calls :
          /\ calls[i].call = "setenv"
          /\ calls[i].arg = preserved_vars[2].name
          /\ ~calls[i].ok
    /\ calls[Len(calls)].call = "waitpid"
    /\ calls[Len(calls)].ok
    /\ exit_code = 1

(***************************************************************************)
(* C8: when waitpid succeeds, the launcher's exit code is k for a child    *)
(* that exited with code k, 128 + s for a child killed by signal s, and 1  *)
(* for any other wait status.                                              *)
(***************************************************************************)
WaitSucceeded == Exited /\ CalledOk("waitpid")

C8_StatusMapping ==
    WaitSucceeded =>
        /\ \A k \in 0..255 :
              wstatus = Ptr(ExitedStatus(k)) => exit_code = k
        /\ \A sig \in 1..126 :
              wstatus \in { Ptr(SignaledStatus(sig)), Ptr(CoreDumpedStatus(sig)) }
                 => exit_code = 128 + sig
        /\ ((\A k \in 0..255 : wstatus # Ptr(ExitedStatus(k)))
              /\ (\A sig \in 1..126 :
                    wstatus \notin { Ptr(SignaledStatus(sig)),
                                     Ptr(CoreDumpedStatus(sig)) }))
              => exit_code = 1

\* The command was killed by signal 9 and the launcher exited with 137.
C8_Witness ==
    /\ WaitSucceeded
    /\ execd # NULL
    /\ wstatus = Ptr(SignaledStatus(9))
    /\ exit_code = 137

(***************************************************************************)
(* C9: with an empty username argument the run ends at the username check: *)
(* it exits with code 1, and neither getpwnam nor fork is called, whatever *)
(* the command is.                                                         *)
(***************************************************************************)
C9_EmptyUsernameRejected ==
    (argc >= 2 /\ username = <<>>) =>
        /\ pc \in {"check_args", "check_username", "exited"}
        /\ ~Exited => ENABLED Next
        /\ Exited => exit_code = 1
        /\ ~Called("getpwnam") /\ ~Called("fork")
        /\ pwd = NULL /\ cpc = "none"

\* An empty username with an allow-listed command: rejected at the username
\* check.
C9_Witness ==
    /\ HasCommandArg
    /\ username = <<>>
    /\ FinalSegment(command) \in AllowedNames
    /\ Exited
    /\ exit_code = 1
    /\ errlog = << Msg("parent", "username cannot be empty") >>

(***************************************************************************)
(* C10: with a non-empty username and an allowed command, when getpwnam    *)
(* finds no such user the run exits with code 1 right after the lookup:    *)
(* no fork, no child, no change of credentials or environment, no exec.    *)
(***************************************************************************)
C10_UnknownUserRejected ==
    (HasCommandArg /\ username # <<>> /\ FinalSegment(command) \in AllowedNames
       /\ ~KnownUser) =>
        /\ pc \in {"check_args", "check_username", "check_command", "preserve",
                   "getpwnam", "exited"}
        /\ Exited => /\ exit_code = 1
                     /\ calls[Len(calls)] = Call("parent", "getpwnam", "", FALSE)
        /\ \A i \in DOMAIN calls :
              calls[i].call \in {"preserve_lsf_environment", "getpwnam"}
        /\ cpc = "none" /\ execd = NULL
        /\ penv = environ0 /\ cenv = environ0
        /\ pcred = cred0 /\ ccred = cred0

\* The lookup of an unknown user failed and the launcher exited.
C10_Witness ==
    /\ HasCommandArg
    /\ username = S_ghost
    /\ FinalSegment(command) \in AllowedNames
    /\ Exited
    /\ exit_code = 1
    /\ Called("getpwnam")

(***************************************************************************)
(* is_allowed_command on its own: one call on a command pointer drawn from *)
(* a pool of path prefixes and base names around the allow-listed names.   *)
(***************************************************************************)
GateDirs ==
    { <<>>, <<"/">>, <<"/","u","s","r","/","b","i","n","/">>,
      <<"b","j","o","b","s","/">> }
GateBases ==
    UNION { { allowed_commands[i],
              allowed_commands[i] \o <<"x">>,
              <<"x">> \o allowed_commands[i],
              SubSeq(allowed_commands[i], 1, Len(allowed_commands[i]) - 1),
              allowed_commands[i] \o <<"/">> } : i \in 1..num_allowed_commands }
    \cup { <<>>, <<"l","s">>, <<"B","J","O","B","S">>, <<"B","j","o","b","s">>,
           <<"b","j","o","b","S">> }
GateCommands == { Ptr(d \o b) : d \in GateDirs, b \in GateBases } \cup { NULL }

GateInit ==
    /\ gate_command \in GateCommands
    /\ gate_result = NULL
    /\ argv = << S_prog >>
    /\ environ0 = clearenv
    /\ cred0 = [ruid |-> 0, euid |-> 0, suid |-> 0, rgid |-> 0, egid |-> 0,
                sgid |-> 0, groups |-> {0}, caps |-> {}]
    /\ pc = "is_allowed_command"
    /\ ret = NULL
    /\ penv = environ0
    /\ pcred = cred0
    /\ preserved_vars = <<>>
    /\ pwd = NULL
    /\ cpc = "none"
    /\ ccred = cred0
    /\ cenv = environ0
    /\ ci = 0
    /\ ccwd = NULL
    /\ wstatus = NULL
    /\ execd = NULL
    /\ calls = <<>>
    /\ errlog = <<>>

\* int is_allowed_command(const char* command), setuid_runner.c:76-93
GateCall ==
    /\ pc = "is_allowed_command"
    /\ gate_result = NULL
    /\ gate_result' = Ptr(is_allowed_command(gate_command))
    /\ UNCHANGED << gate_command, inputVars, parentVars, childVars, calls,
                    errlog >>

GateSpec == GateInit /\ [][GateCall]_vars

(***************************************************************************)
(* C11: is_allowed_command returns 'allowed' exactly when the text after   *)
(* the last '/' of the command (the whole string without '/') is one of    *)
(* the eight allow-listed names, compared exactly and case-sensitively;    *)
(* it accepts "/usr/bin/bjobs" and "bjobs" and rejects "/usr/bin/bjobsx",  *)
(* "BJOBS", "bjobs/" and a NULL command.                                   *)
(***************************************************************************)
C11_AllowedIffBaseNameListed ==
    gate_result # NULL =>
        /\ Deref(gate_result) =
              (gate_command # NULL
                 /\ FinalSegment(Deref(gate_command)) \in AllowedNames)
        /\ gate_command \in
              { Ptr(<<"/","u","s","r","/","b","i","n","/">> \o S_bjobs),
                Ptr(S_bjobs) } => Deref(gate_result) = TRUE
        /\ gate_command \in
              { Ptr(<<"/","u","s","r","/","b","i","n","/">> \o S_bjobs \o <<"x">>),
                Ptr(<<"B","J","O","B","S">>),
                Ptr(S_bjobs \o <<"/">>),
                NULL } => Deref(gate_result) = FALSE

\* "/usr/bin/bjobs" was accepted.
C11_Witness ==
    /\ gate_command = Ptr(<<"/","u","s","r","/","b","i","n","/">> \o S_bjobs)
    /\ gate_result = Ptr(TRUE)

(***************************************************************************)
(* Vocabulary: how a finished run ended, and what it wrote.                *)
(***************************************************************************)
WarningText == "warning: could not change to home directory"
ParentDiagnostics ==
    { "usage", "username cannot be empty", "command not allowed",
      "user not found", "fork failed", "waitpid failed" }
ChildDiagnostics ==
    { "initgroups failed", "setgid failed", "setuid failed",
      "failed to change to user", "failed to clear environment",
      "failed to set environment variables",
      "failed to restore environment variable", "failed to set default PATH",
      "execvp failed" }
ParentWrote == \E i \in DOMAIN errlog : errlog[i].proc = "parent"

\* The child ended before the command was executed.
ChildFailed == cpc = "terminated" /\ execd = NULL
\* The executed command was killed by a signal.
ChildSignaled ==
    \E sig \in 1..126 :
        wstatus \in { Ptr(SignaledStatus(sig)), Ptr(CoreDumpedStatus(sig)) }
\* waitpid reported a status that is neither an exit nor a signal.
ChildOtherStatus == wstatus # NULL /\ cpc = "stopped"
\* The run ended before or at the fork.
EndedBeforeChild == Exited /\ cpc = "none"
WaitFailed == Exited /\ Called("waitpid") /\ ~CalledOk("waitpid")

ChildAlive == cpc \notin {"none", "terminated"}

C13_ParentWaitsForTermination ==
    Exited => ~ChildAlive

(***************************************************************************)
(* C14: the environment capture never fails and stays within its bounds:   *)
(* it keeps, in list order, the first MAX_ENV_VARS matches of the variable *)
(* list followed by PATH (further matches are dropped without error), and  *)
(* each stored value is the original value's prefix of at most             *)
(* MAX_ENV_VAR_LEN - 1 characters, the whole value when it is that short.  *)
(***************************************************************************)
InOriginalEnv(n) == n \in DOMAIN environ0
\* The names the capture looks up that the original environment has, in
\* the order of the lookups.
Matches == SelectSeq(lsf_env_vars \o << "PATH" >>, InOriginalEnv)
IsPrefix(a, b) == Len(a) <= Len(b) /\ \A i \in 1..Len(a) : a[i] = b[i]

C14_CaptureBounded ==
    Called("preserve_lsf_environment") =>
        /\ CalledOk("preserve_lsf_environment")
        /\ \A i \in DOMAIN errlog : errlog[i].msg \in
              (ParentDiagnostics \cup ChildDiagnostics \cup {WarningText})
        /\ num_preserved <= MAX_ENV_VARS
        /\ num_preserved = Min(Len(Matches), MAX_ENV_VARS)
        /\ \A k \in 1..num_preserved :
              LET original == environ0[Matches[k]]
                  stored == preserved_vars[k].value
              IN  /\ preserved_vars[k].name = Matches[k]
                  /\ Len(stored) <= MAX_ENV_VAR_LEN - 1
                  /\ IsPrefix(stored, original)
                  /\ Len(stored) = Min(Len(original), MAX_ENV_VAR_LEN - 1)

\* A value longer than the limit was captured, cut to the limit.
C14_Witness ==
    /\ Called("preserve_lsf_environment")
    /\ num_preserved >= 2
    /\ Len(environ0[preserved_vars[1].name]) > MAX_ENV_VAR_LEN - 1
    /\ Len(preserved_vars[1].value) = MAX_ENV_VAR_LEN - 1
    /\ pc = "getpwnam"

(***************************************************************************)
(* C15: when fork fails the run exits with status 1 and none of            *)
(* initgroups, setgid, setuid, clearenv, setenv, chdir, exec or wait is    *)
(* ever called; the launcher's identity and environment are as at start.   *)
(***************************************************************************)
ForkFailed == Called("fork") /\ ~CalledOk("fork")
AfterForkCalls ==
    {"initgroups", "setgid", "setuid", "getuid", "clearenv", "setenv",
     "chdir", "execvp", "waitpid"}

C15_ForkFailureStops ==
    ForkFailed =>
        /\ Exited
        /\ exit_code = 1
        /\ \A i \in DOMAIN calls : calls[i].call \notin AfterForkCalls
        /\ cpc = "none"
        /\ execd = NULL
        /\ pcred = cred0
        /\ penv = environ0

\* fork failed in a run that passed every check before it.
C15_Witness ==
    /\ ForkFailed
    /\ Exited
    /\ KnownUser
    /\ errlog = << Msg("parent", "fork failed") >>

(***************************************************************************)
(* C16: the privilege transition, the environment mutation, the directory  *)
(* change and the exec are calls of the child only, and only of runs whose *)
(* username check, command check and identity lookup succeeded before the  *)
(* fork; the parent's credentials (uid, gid, groups) and environment are   *)
(* at every moment, its exit included, what they were at start.            *)
(***************************************************************************)
IsPrivilegedCall(c) ==
    c.call \in {"initgroups", "setgid", "setuid", "clearenv", "setenv",
                "chdir", "execvp"}
PositionOf(name) == CHOOSE j \in DOMAIN calls : calls[j].call = name

C16_OnlyChildChanges ==
    /\ pcred = cred0
    /\ penv = environ0
    /\ \A i \in DOMAIN calls :
          IsPrivilegedCall(calls[i]) =>
              /\ calls[i].proc = "child"
              /\ HasCommandArg
              /\ username # S_empty
              /\ FinalSegment(command) \in AllowedNames
              /\ KnownUser
              /\ CalledOk("getpwnam")
              /\ CalledOk("fork")
              /\ PositionOf("getpwnam") < PositionOf("fork")
              /\ PositionOf("fork") < i
    /\ (ccred # cred0 \/ cenv # environ0 \/ ccwd # NULL \/ execd # NULL)
          => CalledOk("fork")

\* The parent has exited after the child changed identity, environment and
\* directory and ran the command; the parent's own are untouched.
C16_Witness ==
    /\ Exited
    /\ execd # NULL
    /\ ccred # cred0
    /\ cenv # environ0
    /\ ccwd # NULL
    /\ pcred = cred0
    /\ penv = environ0

(***************************************************************************)
(* C17: the capture runs once, after the username check and the command    *)
(* check have both passed and before any clearenv; the capture step reads  *)
(* the environment and changes nothing of the process but the preserved    *)
(* set (and the program counter and the call log that record it).          *)
(***************************************************************************)
IsCaptureCall(c) == c.call = "preserve_lsf_environment"
CaptureCalls == SelectSeq(calls, IsCaptureCall)

C17_CaptureBetweenGateAndClearenv ==
    /\ [] /\ Len(CaptureCalls) <= 1
          /\ pc \in {"check_args", "check_username", "check_command", "preserve"}
                => (CaptureCalls = << >> /\ preserved_vars = << >>)
          /\ CaptureCalls # << >> =>
                /\ HasCommandArg
                /\ username # S_empty
                /\ FinalSegment(command) \in AllowedNames
          /\ \A i \in DOMAIN calls :
                calls[i].call = "clearenv" =>
                    /\ CaptureCalls # << >>
                    /\ PositionOf("preserve_lsf_environment") < i
    /\ [][ /\ preserved_vars' # preserved_vars => pc = "preserve"
           /\ Len(calls') > Len(calls) /\ IsCaptureCall(calls'[Len(calls')]) =>
                /\ pc = "preserve"
                /\ preserved_vars' = preserve_lsf_environment(environ0)
                /\ penv' = penv
                /\ pcred' = pcred
                /\ ret' = ret
                /\ pwd' = pwd
                /\ errlog' = errlog
                /\ childVars' = childVars
                /\ inputVars' = inputVars ]_vars

\* The captured set was restored into an environment emptied after the
\* capture.
C17_Witness ==
    /\ CaptureCalls # << >>
    /\ preserved_vars # << >>
    /\ Called("clearenv")
    /\ execd # NULL
    /\ penv = environ0

(***************************************************************************)
(* C18: a failed chdir is not fatal: whether chdir succeeded or failed,    *)
(* the child's next step is the exec attempt (which is then enabled), the  *)
(* working directory is the target's home only when chdir succeeded, and   *)
(* a child that ended without attempting exec never reached chdir.         *)
(***************************************************************************)
ChdirFailed == Called("chdir") /\ ~CalledOk("chdir")

C18_ChdirFailureNotFatal ==
    /\ Called("chdir") =>
          \/ cpc = "execvp" /\ ENABLED ChildExecvp
          \/ Called("execvp")
    /\ (Called("chdir") /\ ~Called("execvp")) => cpc = "execvp"
    /\ Called("chdir") => (ccwd = NULL <=> ChdirFailed)
    /\ (cpc = "terminated" /\ ~Called("execvp")) => ~Called("chdir")
    /\ Called("execvp") =>
          /\ Called("chdir")
          /\ PositionOf("chdir") + 1 = PositionOf("execvp")

\* chdir failed with its warning and the command was executed all the same,
\* in the directory the child inherited.
C18_Witness ==
    /\ ChdirFailed
    /\ CalledOk("execvp")
    /\ execd # NULL
    /\ Deref(execd).cwd = NULL
    /\ \E i \in DOMAIN errlog : errlog[i].msg = WarningText

(***************************************************************************)
(* C19 as stated: once the forked child has terminated, the parent         *)
(* eventually exits with the status mapped from the child's termination.   *)
(***************************************************************************)
MappedStatus == Ptr(status_to_return(Deref(wstatus)))
ChildTerminated == CalledOk("fork") /\ cpc = "terminated"

C19_Original ==
    ChildTerminated ~> (Exited /\ wstatus # NULL /\ ret = MappedStatus)

(***************************************************************************)
(* C19: the launcher runs to its exit.  Before the fork the parent always  *)
(* reaches its exit or the fork; a run that exits without a successful     *)
(* fork never waited; once the forked child has terminated the parent      *)
(* eventually exits, with the mapped status when waitpid succeeded and     *)
(* with 1 when waitpid failed; fork and waitpid are each called at most    *)
(* once, and after its exit the parent does nothing more.                  *)
(***************************************************************************)
IsForkCall(c) == c.call = "fork"
IsWaitCall(c) == c.call = "waitpid"

C19_RunsToExit ==
    /\ [] /\ Len(SelectSeq(calls, IsForkCall)) <= 1
          /\ Len(SelectSeq(calls, IsWaitCall)) <= 1
          /\ (Exited /\ ~CalledOk("fork")) => ~Called("waitpid")
    /\ [][ Exited => (pc' = pc /\ ret' = ret /\ calls' = calls) ]_vars
    /\ ~CalledOk("fork") ~> (Exited \/ CalledOk("fork"))
    /\ ChildTerminated ~>
          /\ Exited
          /\ Called("waitpid")
          /\ CalledOk("waitpid") => ret = MappedStatus
          /\ ~CalledOk("waitpid") => ret = Ptr(1)

\* The command ran, was killed by signal 1, and the parent has exited with
\* 129.
C19_Witness ==
    /\ ChildTerminated
    /\ execd # NULL
    /\ wstatus = Ptr(SignaledStatus(1))
    /\ Exited
    /\ CalledOk("waitpid")
    /\ exit_code = 129

(***************************************************************************)
(* C20: the default PATH is applied exactly when the original environment  *)
(* had no PATH.  A PATH of the original environment, the empty one         *)
(* included, is always the last preserved variable, because the entries    *)
(* kept from the variable list are fewer than MAX_ENV_VARS when PATH is    *)
(* considered; the executed command then sees that value cut to            *)
(* MAX_ENV_VAR_LEN - 1 characters, and the default otherwise.              *)
(***************************************************************************)
HadPath == "PATH" \in DOMAIN environ0
IsSetenvOk(c) == c.call = "setenv" /\ c.ok
IsListEntry(e) == e.name # "PATH"

C20_DefaultPathIffNoPath ==
    /\ Called("preserve_lsf_environment") =>
          /\ Len(SelectSeq(preserved_vars, IsListEntry)) < MAX_ENV_VARS
          /\ HadPath <=> (\E k \in DOMAIN preserved_vars :
                              preserved_vars[k].name = "PATH")
          /\ HadPath =>
                preserved_vars[num_preserved] =
                    [name |-> "PATH", value |-> Captured(environ0["PATH"])]
    /\ cpc = "default_path" => (HadPath <=> "PATH" \in DOMAIN cenv)
    /\ execd # NULL =>
          /\ Deref(execd).env["PATH"] =
                IF HadPath THEN Captured(environ0["PATH"]) ELSE DEFAULT_PATH
          /\ Len(SelectSeq(calls, IsSetenvOk)) =
                Len(identity_vars(username, target)) + num_preserved + (IF HadPath THEN 0 ELSE 1)

\* The command runs with the empty PATH of the original environment.
C20_Witness ==
    /\ execd # NULL
    /\ HadPath
    /\ environ0["PATH"] = S_empty
    /\ Deref(execd).env["PATH"] = S_empty
    /\ Deref(execd).env["PATH"] # DEFAULT_PATH

=============================================================================
